---- MODULE Spec2Model ----
(***************************************************************************)
(* Model of the opening-range-breakout backtest engine of src/first.py     *)
(* (class ORBStrategy).  Prices and capital are integers, risk_percent is  *)
(* a rational <<numerator, denominator>>, a timestamp is the number of     *)
(* minutes since midnight of day 0.                                        *)
(***************************************************************************)
EXTENDS Integers, Sequences, FiniteSets, TLC

\* ------------------------------------------------------------------ bounds
MaxBars == 3        \* longest bar series explored: len(data) <= MaxBars

\* --------------------------------------------------------------- constants
RewardMultiple == 10
AnchorTime == 9 * 60 + 35
MinutesPerDay == 24 * 60

\* ------------------------------------------------------------ input domain
\* Bars are well-formed (Low <= Open, Close <= High) and open and close at
\* an extreme of their range; consecutive bars are at most one day apart.
Prices == {1, 2, 11, 12}
TimesOfDay == {AnchorTime - 5, AnchorTime}
Timestamps == {d * MinutesPerDay + m : d \in 0..MaxBars, m \in TimesOfDay}
Bars == {b \in [Open : Prices, High : Prices, Low : Prices, Close : Prices,
                name : Timestamps] :
            /\ b.Low <= b.High
            /\ b.Open \in {b.Low, b.High}
            /\ b.Close \in {b.Low, b.High}}
InitialCapitals == {0, 4}
RiskPercents == {<<1, 2>>}
\* The locals of backtest before their first assignment (no price, size or
\* timestamp of the model takes this value)
Unbound == 0 - 1000000

\* History variable opened: <<entry_price, stop_loss, profit_target>> as they
\* were assigned by the signal that took the engine out of Flat, NoOpened
\* while the engine is Flat
NoOpened == <<Unbound, Unbound, Unbound>>

VARIABLES pc, i, previous_candle, current_candle,
          initial_capital, risk_percent, capital, position, trades,
          entry_price, stop_loss, profit_target, position_size, entry_time,
          closed, opened

locals == <<entry_price, stop_loss, profit_target, position_size, entry_time>>
engine == <<initial_capital, risk_percent, capital, position, trades, closed>>
vars == <<pc, i, previous_candle, current_candle, initial_capital,
          risk_percent, capital, position, trades, entry_price, stop_loss,
          profit_target, position_size, entry_time, closed, opened>>

\* ----------------------------------------------------------------- helpers
Abs(x) == IF x < 0 THEN -x ELSE x

\* Python int(): truncation toward zero of n / d, d > 0
IntTrunc(n, d) == IF n >= 0 THEN n \div d ELSE -((-n) \div d)

\* current_candle.name.time(): the time-of-day part of a timestamp
TimeOf(ts) == ts % MinutesPerDay

\* Mutant of IsAnchor: any bar up to the anchor time of its day triggers
IsAnchorOrEarlier(bar) == TimeOf(bar.name) <= AnchorTime

IsAnchor(bar) == TimeOf(bar.name) = AnchorTime

\* Mutant of Bullish: a flat previous bar (Close = Open) counts as bullish
BullishOrFlat(bar) == bar.Close >= bar.Open

\* Line 134: the opening range is bullish
Bullish(bar) == bar.Close > bar.Open

\* Line 143: the opening range is bearish
Bearish(bar) == bar.Close < bar.Open

\* Mutant of calculate_position_size: rounds down instead of toward zero
calculate_position_size_floor(cap, rp, entry, stop) ==
    (cap * rp[1]) \div (rp[2] * Abs(entry - stop))

\* Mutant of calculate_position_size: the risk per unit is left out
calculate_position_size_noRisk(cap, rp, entry, stop) ==
    IntTrunc(cap * rp[1], rp[2])

\* calculate_position_size: int((capital * risk_percent) / abs(entry - stop));
\* defined for entry # stop only (the division raises otherwise)
calculate_position_size(cap, rp, entry, stop) ==
    IntTrunc(cap * rp[1], rp[2] * Abs(entry - stop))

Trade(entry, exit, result, size, etime, xtime) ==
    [entry_price |-> entry, exit_price |-> exit, result |-> result,
     position_size |-> size, entry_time |-> etime, exit_time |-> xtime]

\* ------------------------------------------------------------------- Init
\* ORBStrategy.__init__ followed by the call of backtest(data); before the
\* first iteration current_candle holds data[0], which the first iteration
\* reads as its previous candle.
Init ==
    /\ pc = "loop"
    /\ i = 1
    /\ current_candle \in {b \in Bars : b.name < MinutesPerDay}
    /\ previous_candle = current_candle
    /\ initial_capital \in InitialCapitals
    /\ risk_percent \in RiskPercents
    /\ capital = initial_capital
    /\ position = 0
    /\ trades = <<>>
    /\ closed = <<>>
    /\ opened = NoOpened
    /\ entry_price = Unbound
    /\ stop_loss = Unbound
    /\ profit_target = Unbound
    /\ position_size = Unbound
    /\ entry_time = Unbound

\* ---------------------------------------------------------------- actions
\* Lines 124-152: the loop fetches data.iloc[i] and data.iloc[i-1] and runs
\* the opening-range signal.
Enter(dir, stop) ==
    LET entry == current_candle'.Open
        rsk == IF dir = 1 THEN entry - stop ELSE stop - entry
        target == IF dir = 1 THEN entry + rsk * RewardMultiple
                             ELSE entry - rsk * RewardMultiple
    IN /\ entry_price' = entry
       /\ stop_loss' = stop
       /\ profit_target' = target
       /\ IF entry = stop
            THEN \* division by zero in calculate_position_size: backtest raises
                 /\ pc' = "error"
                 /\ UNCHANGED <<position_size, position, entry_time>>
            ELSE /\ position_size' =
                        calculate_position_size(capital, risk_percent, entry, stop)
                 /\ position' = dir
                 /\ entry_time' = current_candle'.name
                 /\ pc' = "exit"

\* Mutant of SignalStep: lines 151-152 run on every bar, not only on anchor
\* bars, so entry_time follows the current bar while a position is open
SignalStep_entryTimeEveryBar ==
    /\ pc = "loop"
    /\ i < MaxBars
    /\ \E bar \in Bars :
         /\ bar.name > current_candle.name
         /\ bar.name <= current_candle.name + MinutesPerDay
         /\ current_candle' = bar
    /\ previous_candle' = current_candle
    /\ IF IsAnchor(current_candle')
         THEN IF Bullish(previous_candle')
                THEN Enter(1, previous_candle'.Low)
              ELSE IF Bearish(previous_candle')
                THEN Enter(-1, previous_candle'.High)
              ELSE /\ entry_time' = IF position # 0 THEN current_candle'.name
                                                   ELSE entry_time
                   /\ pc' = "exit"
                   /\ UNCHANGED <<entry_price, stop_loss, profit_target,
                                  position_size, position>>
         ELSE /\ entry_time' = IF position # 0 THEN current_candle'.name
                                              ELSE entry_time
              /\ pc' = "exit"
              /\ UNCHANGED <<entry_price, stop_loss, profit_target,
                             position_size, position>>
    /\ opened' = IF position = 0 /\ position' # 0
                   THEN <<entry_price', stop_loss', profit_target'>>
                   ELSE opened
    /\ UNCHANGED <<i, initial_capital, risk_percent, capital, trades, closed>>

SignalStep ==
    /\ pc = "loop"
    /\ i < MaxBars
    /\ \E bar \in Bars :
         /\ bar.name > current_candle.name
         /\ bar.name <= current_candle.name + MinutesPerDay
         /\ current_candle' = bar
    /\ previous_candle' = current_candle
    /\ IF IsAnchor(current_candle')
         THEN IF Bullish(previous_candle')
                THEN Enter(1, previous_candle'.Low)
              ELSE IF Bearish(previous_candle')
                THEN Enter(-1, previous_candle'.High)
              ELSE /\ entry_time' = IF position # 0 THEN current_candle'.name
                                                   ELSE entry_time
                   /\ pc' = "exit"
                   /\ UNCHANGED <<entry_price, stop_loss, profit_target,
                                  position_size, position>>
         ELSE /\ pc' = "exit"
              /\ UNCHANGED <<locals, position>>
    /\ opened' = IF position = 0 /\ position' # 0
                   THEN <<entry_price', stop_loss', profit_target'>>
                   ELSE opened
    /\ UNCHANGED <<i, initial_capital, risk_percent, capital, trades, closed>>

\* Mutant of _close_trade: the P&L forgets the direction of the position
_close_trade_unsigned(exit_price, result) ==
    /\ trades' = Append(trades, Trade(entry_price, exit_price, result,
                                      position_size, entry_time,
                                      current_candle.name))
    /\ closed' = Append(closed, position)
    /\ capital' = capital + (exit_price - entry_price) * position_size
    /\ position' = 0

\* Mutant of _close_trade: the trade is booked but the position stays open
_close_trade_keepOpen(exit_price, result) ==
    /\ trades' = Append(trades, Trade(entry_price, exit_price, result,
                                      position_size, entry_time,
                                      current_candle.name))
    /\ closed' = Append(closed, position)
    /\ capital' = capital + (exit_price - entry_price) * position_size * position
    /\ position' = position

\* Mutant of _close_trade: stop-and-reverse, the opposite position is held
\* after the close
_close_trade_reverse(exit_price, result) ==
    /\ trades' = Append(trades, Trade(entry_price, exit_price, result,
                                      position_size, entry_time,
                                      current_candle.name))
    /\ closed' = Append(closed, position)
    /\ capital' = capital + (exit_price - entry_price) * position_size * position
    /\ position' = -position

\* Lines 98-120
_close_trade(exit_price, result) ==
    /\ trades' = Append(trades, Trade(entry_price, exit_price, result,
                                      position_size, entry_time,
                                      current_candle.name))
    /\ closed' = Append(closed, position)
    /\ capital' = capital + (exit_price - entry_price) * position_size * position
    /\ position' = 0

\* Mutant of process_trade: the profit target is tested before the stop
process_trade_targetFirst ==
    IF position = 1
      THEN IF current_candle.High >= profit_target
             THEN _close_trade(profit_target, "Profit")
           ELSE IF current_candle.Low <= stop_loss
             THEN _close_trade(stop_loss, "Loss")
           ELSE UNCHANGED <<trades, closed, capital, position>>
    ELSE IF position = -1
      THEN IF current_candle.Low <= profit_target
             THEN _close_trade(profit_target, "Profit")
           ELSE IF current_candle.High >= stop_loss
             THEN _close_trade(stop_loss, "Loss")
           ELSE UNCHANGED <<trades, closed, capital, position>>
    ELSE UNCHANGED <<trades, closed, capital, position>>

\* Lines 54-96
process_trade ==
    IF position = 1
      THEN IF current_candle.Low <= stop_loss
             THEN _close_trade(stop_loss, "Loss")
           ELSE IF current_candle.High >= profit_target
             THEN _close_trade(profit_target, "Profit")
           ELSE UNCHANGED <<trades, closed, capital, position>>
    ELSE IF position = -1
      THEN IF current_candle.High >= stop_loss
             THEN _close_trade(stop_loss, "Loss")
           ELSE IF current_candle.Low <= profit_target
             THEN _close_trade(profit_target, "Profit")
           ELSE UNCHANGED <<trades, closed, capital, position>>
    ELSE UNCHANGED <<trades, closed, capital, position>>

\* Mutant of ExitStep: no exit check on the bar that set entry_time
ExitStep_skipEntryBar ==
    /\ pc = "exit"
    /\ IF position # 0 /\ entry_time # current_candle.name
         THEN process_trade
         ELSE UNCHANGED <<trades, closed, capital, position>>
    /\ opened' = IF position' = 0 THEN NoOpened ELSE opened
    /\ i' = i + 1
    /\ pc' = "loop"
    /\ UNCHANGED <<previous_candle, current_candle, initial_capital,
                   risk_percent, locals>>

\* Lines 154-163 and the loop increment
ExitStep ==
    /\ pc = "exit"
    /\ IF position # 0
         THEN process_trade
         ELSE UNCHANGED <<trades, closed, capital, position>>
    /\ opened' = IF position' = 0 THEN NoOpened ELSE opened
    /\ i' = i + 1
    /\ pc' = "loop"
    /\ UNCHANGED <<previous_candle, current_candle, initial_capital,
                   risk_percent, locals>>

\* Mutant of Return: a position still open at the end of the series is
\* marked to the close of the last bar
Return_markToClose ==
    /\ pc = "loop"
    /\ pc' = "done"
    /\ IF position # 0
         THEN _close_trade(current_candle.Close, "Profit")
         ELSE UNCHANGED <<capital, position, trades, closed>>
    /\ UNCHANGED <<i, previous_candle, current_candle, initial_capital,
                   risk_percent, locals, opened>>

\* Line 165: the series is exhausted, backtest returns (trades, capital)
Return ==
    /\ pc = "loop"
    /\ pc' = "done"
    /\ UNCHANGED <<i, previous_candle, current_candle, engine, locals,
                   opened>>

Next == SignalStep \/ ExitStep \/ Return

Spec == Init /\ [][Next]_vars

\* ------------------------------------------------- properties of backtest
\* The indices of the trade log
TradeIdx == 1..Len(trades)

\* The P&L of the k-th recorded trade; closed[k] is the direction (+1 long,
\* -1 short) of the position that the trade closed
Pnl(k) == (trades[k].exit_price - trades[k].entry_price)
              * trades[k].position_size * closed[k]

RECURSIVE SumPnl(_)
SumPnl(k) == IF k = 0 THEN 0 ELSE SumPnl(k - 1) + Pnl(k)

\* A signal step is a step from the loop head to the exit check (or to the
\* failure of the run); an exit step is the rest of the iteration
IsSignalStep == pc = "loop" /\ pc' \in {"exit", "error"}
IsExitStep == pc = "exit" /\ pc' = "loop"

\* The configuration meets the documented constraints: initial_capital > 0
\* and risk_percent in (0, 1]
ValidConfig ==
    initial_capital > 0 /\ risk_percent[1] > 0
        /\ risk_percent[1] <= risk_percent[2]

\* C1: when a position is open and an anchor-time bar is processed, the
\* signal step leaves the direction, entry_price, stop_loss, profit_target,
\* position_size and entry_time of the open position unchanged (stated for
\* a validly configured engine).
C1_NoReentry ==
    [][(ValidConfig /\ IsSignalStep /\ position # 0
          /\ IsAnchor(current_candle'))
          => /\ position' = position
             /\ entry_price' = entry_price
             /\ stop_loss' = stop_loss
             /\ profit_target' = profit_target
             /\ position_size' = position_size
             /\ entry_time' = entry_time]_vars

\* C2: in every reachable state capital equals initial_capital plus the sum
\* over the trade log of (exit_price - entry_price) * position_size *
\* direction.
C2_CapitalConservation ==
    capital = initial_capital + SumPnl(Len(trades))

\* C2 witness: a finished run that closed a long and a short and whose
\* capital moved.
C2_Witness ==
    /\ pc = "done"
    /\ Len(trades) = 2
    /\ closed[1] # closed[2]
    /\ capital # initial_capital

\* The bar under the exit check touches both the stop and the target of the
\* open position
BothTouched(bar, dir, stop, target) ==
    \/ dir = 1 /\ bar.Low <= stop /\ bar.High >= target
    \/ dir = -1 /\ bar.High >= stop /\ bar.Low <= target

\* C3: an exit check on a bar that satisfies both the stop and the target
\* condition of the open position records exactly one Trade, with result
\* Loss and exit_price equal to stop_loss.
C3_StopPriority ==
    [][(IsExitStep /\ position # 0
          /\ BothTouched(current_candle, position, stop_loss, profit_target))
          => /\ Len(trades') = Len(trades) + 1
             /\ trades'[Len(trades')].result = "Loss"
             /\ trades'[Len(trades')].exit_price = stop_loss]_vars

\* C3 witness: the last bar processed touched both levels of the position it
\* closed, and the trade was booked as a Loss.
C3_Witness ==
    /\ pc = "loop"
    /\ Len(trades) > 0
    /\ LET t == trades[Len(trades)]
       IN /\ t.exit_time = current_candle.name
          /\ t.entry_time < t.exit_time
          /\ t.result = "Loss"
          /\ t.exit_price = stop_loss
          /\ BothTouched(current_candle, closed[Len(trades)], stop_loss,
                         profit_target)

\* C4: every Trade in the trade log has entry_time strictly earlier than
\* exit_time (stated for a validly configured engine).
C4_EntryBeforeExit ==
    ValidConfig => \A k \in TradeIdx : trades[k].entry_time < trades[k].exit_time

\* C5: a computed position size of 0 opens no position, and every Trade in
\* the trade log has position_size >= 1 (stated for a validly configured
\* engine).
C5_NoZeroSize ==
    ValidConfig =>
        /\ position # 0 => position_size # 0
        /\ \A k \in TradeIdx : trades[k].position_size >= 1

\* The risk computed by the signal at an anchor bar is not strictly positive
DegenerateRisk(prev, cur) ==
    \/ Bullish(prev) /\ cur.Open - prev.Low <= 0
    \/ Bearish(prev) /\ prev.High - cur.Open <= 0

\* C6: a signal whose computed risk is not strictly positive opens no
\* position: the engine stays Flat, capital and the trade log are unchanged
\* and the run does not fail (stated for a validly configured engine).
C6_DegenerateRiskSkipped ==
    [][(ValidConfig /\ IsSignalStep /\ position = 0 /\ IsAnchor(current_candle')
          /\ DegenerateRisk(previous_candle', current_candle'))
          => /\ pc' # "error"
             /\ position' = 0
             /\ trades' = trades
             /\ capital' = capital]_vars

\* C7: a Flat engine that processes an anchor-time bar whose previous bar has
\* Close = Open stays Flat through the whole bar, with the trade log and
\* capital unchanged.
C7_FlatOpeningBar ==
    [][/\ (IsSignalStep /\ position = 0 /\ IsAnchor(current_candle')
             /\ previous_candle'.Close = previous_candle'.Open)
          => (pc' = "exit" /\ position' = 0 /\ trades' = trades
                /\ capital' = capital)
       /\ (IsExitStep /\ position = 0)
          => (position' = 0 /\ trades' = trades /\ capital' = capital)]_vars

\* C7 witness: an anchor bar after a flat previous bar has been processed
\* completely by an engine that has been Flat from the start.
C7_Witness ==
    /\ pc = "loop"
    /\ i > 1
    /\ IsAnchor(current_candle)
    /\ previous_candle.Close = previous_candle.Open
    /\ position = 0
    /\ trades = <<>>
    /\ capital = initial_capital
    /\ capital > 0

\* C8: when the series ends with a position open, backtest returns without
\* closing it: the return step changes neither the trade log, capital nor the
\* position, no Trade of the log belongs to the open position (all were
\* closed before it was entered) and the returned capital is initial_capital
\* plus the P&L of the closed trades only.
C8_TrailingOpenPosition ==
    [][(pc = "loop" /\ pc' = "done" /\ position # 0)
          => /\ trades' = trades
             /\ capital' = capital
             /\ position' = position
             /\ \A k \in TradeIdx : trades[k].exit_time < entry_time
             /\ capital' = initial_capital + SumPnl(Len(trades))]_vars

\* C8 witness: a run returned with one trade closed and a later position
\* still open.
C8_Witness ==
    /\ pc = "done"
    /\ position # 0
    /\ position_size > 0
    /\ Len(trades) = 1
    /\ capital # initial_capital

\* C9: every step either appends exactly one Trade, adds that trade's P&L to
\* capital and makes the position Flat, all together, or leaves the trade log
\* and capital unchanged; opening a position never changes capital.
C9_AtomicClose ==
    [][\/ /\ position # 0
          /\ Len(trades') = Len(trades) + 1
          /\ SubSeq(trades', 1, Len(trades)) = trades
          /\ capital' = capital
                + (trades'[Len(trades')].exit_price
                     - trades'[Len(trades')].entry_price)
                  * trades'[Len(trades')].position_size * position
          /\ position' = 0
       \/ /\ trades' = trades
          /\ capital' = capital]_vars

\* C9 witness: a position was opened without touching capital and is then
\* closed with a capital change.
C9_Witness ==
    /\ pc = "loop"
    /\ Len(trades) = 1
    /\ position = 0
    /\ trades[1].exit_time = current_candle.name
    /\ trades[1].entry_time < trades[1].exit_time
    /\ capital = initial_capital + Pnl(1)
    /\ capital # initial_capital


\* ------------------------------------- calculate_position_size on its own
\* A second specification that calls calculate_position_size once on inputs
\* drawn from the sets below, on an engine that holds no position.
SizeCapitals == {-150, -100, -50, 0, 50, 100, 150}
SizeRiskPercents == {<<1, 100>>, <<1, 2>>}
SizePrices == {98, 99, 100, 101}

InitSize ==
    /\ pc = "size"
    /\ i = 1
    /\ current_candle = [Open |-> 100, High |-> 100, Low |-> 100,
                         Close |-> 100, name |-> AnchorTime]
    /\ previous_candle = current_candle
    /\ initial_capital \in SizeCapitals
    /\ risk_percent \in SizeRiskPercents
    /\ capital = initial_capital
    /\ position = 0
    /\ trades = <<>>
    /\ closed = <<>>
    /\ opened = NoOpened
    /\ entry_price \in SizePrices
    /\ stop_loss \in SizePrices
    /\ profit_target = Unbound
    /\ position_size = Unbound
    /\ entry_time = Unbound

\* Lines 39-42 with entry_price # stop_loss: the size is returned
SizeCall ==
    /\ pc = "size"
    /\ entry_price # stop_loss
    /\ position_size' = calculate_position_size(capital, risk_percent,
                                                entry_price, stop_loss)
    /\ pc' = "sized"
    /\ UNCHANGED <<i, previous_candle, current_candle, engine, entry_price,
                   stop_loss, profit_target, entry_time, opened>>

\* Lines 39-42 with entry_price = stop_loss: the division raises
SizeRaise ==
    /\ pc = "size"
    /\ entry_price = stop_loss
    /\ pc' = "error"
    /\ UNCHANGED <<i, previous_candle, current_candle, engine, locals,
                   opened>>

NextSize == SizeCall \/ SizeRaise

SpecSize == InitSize /\ [][NextSize]_vars

\* q is n / d rounded toward minus infinity (d > 0)
IsFloorOf(q, n, d) == q * d <= n /\ n < (q + 1) * d

\* q is n / d rounded toward zero (d > 0)
IsTruncOf(q, n, d) ==
    IF n >= 0 THEN q >= 0 /\ q * d <= n /\ n < (q + 1) * d
              ELSE q <= 0 /\ (q - 1) * d < n /\ n <= q * d

\* The inputs of Scenario D
ScenarioD(cap) ==
    /\ capital = cap
    /\ risk_percent = <<1, 100>>
    /\ entry_price = 100
    /\ stop_loss = 99

\* C10 as stated: for entry_price # stop_loss calculate_position_size
\* returns floor((capital * risk_percent) / |entry_price - stop_loss|) and
\* leaves capital, position and the trade log unchanged.
C10_SizeIsFloor ==
    [][(pc = "size" /\ pc' = "sized")
          => /\ IsFloorOf(position_size', capital * risk_percent[1],
                          risk_percent[2] * Abs(entry_price - stop_loss))
             /\ UNCHANGED <<capital, position, trades>>]_vars

\* C10 amended: for entry_price # stop_loss calculate_position_size returns
\* (capital * risk_percent) / |entry_price - stop_loss| truncated toward
\* zero, which is the floor whenever capital * risk_percent >= 0 (capital 100
\* gives 1 and capital 50 gives 0 in Scenario D), and leaves capital,
\* position and the trade log unchanged.
C10_SizeIsTruncation ==
    [][(pc = "size" /\ pc' = "sized")
          => /\ IsTruncOf(position_size', capital * risk_percent[1],
                          risk_percent[2] * Abs(entry_price - stop_loss))
             /\ capital * risk_percent[1] >= 0
                  => IsFloorOf(position_size', capital * risk_percent[1],
                          risk_percent[2] * Abs(entry_price - stop_loss))
             /\ ScenarioD(100) => position_size' = 1
             /\ ScenarioD(50) => position_size' = 0
             /\ UNCHANGED <<capital, position, trades>>]_vars

\* C10 witness: a negative capital whose quotient -1.5 was truncated to -1.
C10_Witness ==
    /\ pc = "sized"
    /\ ScenarioD(-150)
    /\ position_size = -1

\* ------------------------------------------- entries, exits and bookkeeping
\* The last Trade of the log in the next state
NewTrade == trades'[Len(trades')]

\* A step that appends a Trade
Closes == Len(trades') = Len(trades) + 1

\* C11: a position opened from Flat at an anchor bar is Long after a bullish
\* previous bar and Short after a bearish one, with entry_price =
\* current.Open, stop_loss = previous.Low (High for a short) and
\* profit_target = entry_price +/- 10 * risk; the Trade that closes the
\* position records the entry_price it was opened with, and exits at the
\* stop_loss it was opened with when Loss and at the profit_target it was
\* opened with when Profit (stated for a validly configured engine).
C11_EntryExitLevels ==
    [][ValidConfig =>
         /\ (IsSignalStep /\ position = 0 /\ position' # 0) =>
              /\ entry_price' = current_candle'.Open
              /\ IF previous_candle'.Close > previous_candle'.Open
                   THEN /\ position' = 1
                        /\ stop_loss' = previous_candle'.Low
                        /\ profit_target' = entry_price'
                              + 10 * (entry_price' - stop_loss')
                   ELSE /\ previous_candle'.Close < previous_candle'.Open
                        /\ position' = -1
                        /\ stop_loss' = previous_candle'.High
                        /\ profit_target' = entry_price'
                              - 10 * (stop_loss' - entry_price')
         /\ Closes =>
              /\ NewTrade.entry_price = opened[1]
              /\ NewTrade.result = "Loss" => NewTrade.exit_price = opened[2]
              /\ NewTrade.result = "Profit" => NewTrade.exit_price = opened[3]
              /\ NewTrade.result \in {"Loss", "Profit"}]_vars

\* C12: an engine whose configuration is invalid (initial_capital <= 0 or
\* risk_percent outside (0, 1]) never processes a bar: the run does not get
\* past the head of the first iteration and does not return a result, no
\* position is opened and no Trade is recorded.
C12_InvalidConfigFailsFast ==
    ~ValidConfig =>
        /\ i = 1
        /\ pc \notin {"exit", "done"}
        /\ position = 0
        /\ trades = <<>>

\* C13: for a valid configuration and well-formed bars (Low <= Open <= High
\* and Low <= Close <= High, which every bar of Bars satisfies) a recorded
\* Trade reduces capital by at most risk_percent times the capital held when
\* it was sized (capital does not change while a position is open, so that
\* is the capital before the closing step), and capital is never negative.
C13_RiskCap ==
    [][ValidConfig =>
         /\ capital >= 0
         /\ capital' >= 0
         /\ Closes => (capital - capital') * risk_percent[2]
                          <= risk_percent[1] * capital]_vars

\* C13 witness: a stop-loss exit that cost exactly risk_percent of the
\* capital.
C13_Witness ==
    /\ ValidConfig
    /\ pc = "loop"
    /\ Len(trades) = 1
    /\ trades[1].result = "Loss"
    /\ trades[1].position_size >= 1
    /\ (initial_capital - capital) * risk_percent[2]
          = risk_percent[1] * initial_capital

\* C14: a step appends at most one Trade, the signal step appends none, and
\* the bar on which a Trade is recorded ends with the position Flat.
C14_OneExitPerBar ==
    [][/\ Len(trades') <= Len(trades) + 1
       /\ IsSignalStep => trades' = trades
       /\ (IsExitStep /\ trades' # trades) => position' = 0]_vars

\* C14 witness: two trades recorded on two different bars, the engine Flat
\* at the end of the second.
C14_Witness ==
    /\ pc = "loop"
    /\ Len(trades) = 2
    /\ trades[1].exit_time < trades[2].exit_time
    /\ trades[2].exit_time = current_candle.name
    /\ position = 0

\* C15: the position leaves Flat only in the signal step of a bar at index
\* >= 1, i.e. a bar with a predecessor in the series, whose time-of-day is
\* the anchor time; before the first iteration the engine is Flat whatever
\* the time-of-day of the first bar.
C15_EntryOnlyAtAnchor ==
    [][/\ (position = 0 /\ position' # 0)
          => /\ IsSignalStep
             /\ i >= 1
             /\ previous_candle' = current_candle
             /\ previous_candle'.name < current_candle'.name
             /\ TimeOf(current_candle'.name) = AnchorTime
       /\ (pc = "loop" /\ i = 1) => position = 0]_vars

\* C15 witness: the first bar of the series was at the anchor time and
\* opened nothing; the second bar, at the anchor time of the next day, did.
C15_Witness ==
    /\ pc = "exit"
    /\ i = 1
    /\ TimeOf(previous_candle.name) = AnchorTime
    /\ previous_candle.name < MinutesPerDay
    /\ current_candle.name > MinutesPerDay
    /\ position # 0
    /\ entry_time = current_candle.name
    /\ trades = <<>>

\* The bar touches the stop or the target of the position
Touched(bar, dir, stop, target) ==
    \/ dir = 1 /\ (bar.Low <= stop \/ bar.High >= target)
    \/ dir = -1 /\ (bar.High >= stop \/ bar.Low <= target)

\* C16: when the bar that opened the position touches its stop or its
\* target, the exit check of that same bar closes it: a Trade with
\* entry_time = exit_time = the bar's timestamp is recorded and the bar ends
\* Flat.
C16_SameBarExit ==
    [][(IsExitStep /\ position # 0
          /\ entry_time = current_candle.name
          /\ entry_price = current_candle.Open
          /\ Touched(current_candle, position, stop_loss, profit_target))
          => /\ Closes
             /\ NewTrade.entry_time = current_candle.name
             /\ NewTrade.exit_time = current_candle.name
             /\ position' = 0]_vars

\* C16 witness: a position was opened and closed at its target on the same
\* anchor bar.
C16_Witness ==
    /\ pc = "loop"
    /\ Len(trades) = 1
    /\ trades[1].entry_time = current_candle.name
    /\ trades[1].exit_time = current_candle.name
    /\ trades[1].entry_price = current_candle.Open
    /\ trades[1].result = "Profit"
    /\ trades[1].position_size >= 1
    /\ position = 0

\* C17: while a position is open, a bar whose time-of-day is not the anchor
\* time and which touches neither the stop nor the target changes nothing:
\* neither its signal step nor its exit step changes the position, its
\* levels, size and entry_time, capital or the trade log.
C17_HoldingSelfLoop ==
    [][/\ (IsSignalStep /\ position # 0
             /\ TimeOf(current_candle'.name) # AnchorTime)
          => UNCHANGED <<position, locals, capital, trades>>
       /\ (IsExitStep /\ position # 0
             /\ TimeOf(current_candle.name) # AnchorTime
             /\ ~Touched(current_candle, position, stop_loss, profit_target))
          => UNCHANGED <<position, locals, capital, trades>>]_vars

\* C17 witness: a position opened on an earlier bar is still open after a
\* non-anchor bar that touched neither level.
C17_Witness ==
    /\ pc = "loop"
    /\ i > 1
    /\ position # 0
    /\ position_size >= 1
    /\ TimeOf(current_candle.name) # AnchorTime
    /\ entry_time < current_candle.name
    /\ ~Touched(current_candle, position, stop_loss, profit_target)
    /\ trades = <<>>
    /\ capital = initial_capital

\* C18: every Trade of at least one unit recorded as Loss changed capital by
\* a strictly negative amount and every such Trade recorded as Profit by a
\* strictly positive amount (stated for a validly configured engine; the
\* bars of Bars are well-formed).
C18_LabelMatchesPnl ==
    ValidConfig =>
        \A k \in TradeIdx :
            trades[k].position_size >= 1 =>
                /\ trades[k].result = "Loss" => Pnl(k) < 0
                /\ trades[k].result = "Profit" => Pnl(k) > 0

\* C19: the entry_time and the entry_price of every Trade come from the same
\* bar: a Trade whose entry_time is the timestamp of the current or of the
\* previous bar has that bar's Open as entry_price (stated for a validly
\* configured engine).
C19_EntryTimeMatchesPrice ==
    ValidConfig =>
        \A k \in TradeIdx :
            /\ trades[k].entry_time = current_candle.name
                  => trades[k].entry_price = current_candle.Open
            /\ trades[k].entry_time = previous_candle.name
                  => trades[k].entry_price = previous_candle.Open

====
